---- MODULE Spec2Model ----
\* A model of the simulated OPC UA server of "OPCUA -Simulator/app.js":
\* the class SimulatedOpcUaServer (address space, read/write/browse,
\* subscription registry, simulation timer) and the JavaScript built-ins
\* its behaviour rests on (parseFloat, Number.prototype.toFixed, property
\* lookup on plain objects, setInterval, Date).
EXTENDS Integers, Sequences, FiniteSets, TLC

VARIABLES
    addressSpace,    \* this.addressSpace: the node tree
    subscriptions,   \* this.subscriptions: own properties, nodeId -> callback
    updateInterval,  \* this.updateInterval: 0 (null) or a timer id
    timers,          \* the runtime's active interval timers: id -> due instant
    timerSeq,        \* number of setInterval calls made so far (ids are 1, 2, ...)
    now,             \* the wall clock, in milliseconds
    op,              \* the operation that ran last and its arguments
    result,          \* the value that operation returned
    calls,           \* the callback invocations that operation made, in order
    mutated,         \* the node ids whose value/timestamp it assigned, in order
    superseded,      \* history: <<nodeId, callback>> for each callback that a
                     \* later subscribe on nodeId replaced (until nodeId is
                     \* unsubscribed or the callback is subscribed on it again)
    lastTick,        \* history: the timestamps the latest tick gave
                     \* <<Temperature, Pressure>>; << >> before the first tick
    isConnected,     \* the client's isConnected
    subscribedNodeId,\* the client's subscribedNodeId: << >> (null) or <<nodeId>>
    page,            \* the document: whether init() has added the listeners,
                     \* and the disabled property of each button
    reads            \* history: for each invocation in calls, what
                     \* readNode of its node returned at that moment

vars == <<addressSpace, subscriptions, updateInterval, timers, timerSeq, now,
          op, result, calls, mutated, superseded, lastTick,
          isConnected, subscribedNodeId, page, reads>>

\* The state of the client, which no method of the server touches.
client == <<isConnected, subscribedNodeId, page>>

----------------------------------------------------------------------------
\* Bounds of the model.

\* The wall clock stops advancing at MaxTime milliseconds.
MaxTime == 4001
\* Furthest the clock moves, in single milliseconds, past a multiple of Period.
MaxJitter == 1
\* setInterval is called at most MaxTimers times.
MaxTimers == 2
\* Math.random() is sampled in steps of 1/RandDen.
RandDen == 10000

\* Period of the simulation timer in milliseconds (setInterval(..., 2000)).
Period == 2000

----------------------------------------------------------------------------
\* Texts are sequences of one-character strings.

Digits == {"0", "1", "2", "3", "4", "5", "6", "7", "8", "9"}

DigitValue(c) ==
    CASE c = "0" -> 0 [] c = "1" -> 1 [] c = "2" -> 2 [] c = "3" -> 3
      [] c = "4" -> 4 [] c = "5" -> 5 [] c = "6" -> 6 [] c = "7" -> 7
      [] c = "8" -> 8 [] c = "9" -> 9

DigitChar(d) ==
    CASE d = 0 -> "0" [] d = 1 -> "1" [] d = 2 -> "2" [] d = 3 -> "3"
      [] d = 4 -> "4" [] d = 5 -> "5" [] d = 6 -> "6" [] d = 7 -> "7"
      [] d = 8 -> "8" [] d = 9 -> "9"

WhiteSpace == {" ", "\t", "\n", "\r"}

RECURSIVE Pow10(_)
Pow10(n) == IF n = 0 THEN 1 ELSE 10 * Pow10(n - 1)

\* JavaScript values: numbers are exact decimal fractions num/den with den
\* the least power of ten (den = 0 stands for +/-Infinity), NaN, strings
\* and booleans.
NaN == [kind |-> "NaN"]
Str(t) == [kind |-> "string", text |-> t]
Bool(b) == [kind |-> "boolean", bool |-> b]
Infinite(sign) == [kind |-> "number", num |-> sign, den |-> 0]

RECURSIVE Num(_, _)
Num(n, d) ==
    IF n = 0 THEN [kind |-> "number", num |-> 0, den |-> 1]
    ELSE IF d > 1 /\ n % 10 = 0 THEN Num(n \div 10, d \div 10)
    ELSE [kind |-> "number", num |-> n, den |-> d]

\* A variant of isNaN that accepts every value.
isNaN_Never(v) == FALSE

isNaN(v) == v.kind = "NaN"

----------------------------------------------------------------------------
\* Built-ins of the JavaScript runtime.

RECURSIVE SkipWhile(_, _, _)
\* The first index at or after i whose character is not in set.
SkipWhile(s, i, set) ==
    IF i <= Len(s) /\ s[i] \in set THEN SkipWhile(s, i + 1, set) ELSE i

RECURSIVE DigitsValue(_, _, _)
\* The number written by the digits s[i], ..., s[j-1].
DigitsValue(s, i, j) ==
    IF j <= i THEN 0 ELSE DigitsValue(s, i, j - 1) * 10 + DigitValue(s[j - 1])

StartsWithAt(s, i, w) ==
    Len(s) >= i + Len(w) - 1 /\ SubSeq(s, i, i + Len(w) - 1) = w

\* parseFloat, last step: the mantissa mant / 10^fracLen scaled by the
\* exponent written by the digits s[ed], ..., s[ee-1] (no digit: the "e"
\* is not part of the number).
applyExponent(s, mant, fracLen, negative, ed, ee) ==
    IF ee = ed THEN Num(mant, Pow10(fracLen))
    ELSE IF negative THEN Num(mant, Pow10(fracLen + DigitsValue(s, ed, ee)))
    ELSE Num(mant * Pow10(DigitsValue(s, ed, ee)), Pow10(fracLen))

\* parseFloat from index r on, where an exponent part may start.
parseExponent(s, mant, fracLen, r) ==
    IF r <= Len(s) /\ s[r] \in {"e", "E"}
    THEN IF r + 1 <= Len(s) /\ s[r + 1] \in {"+", "-"}
         THEN applyExponent(s, mant, fracLen, s[r + 1] = "-", r + 2,
                            SkipWhile(s, r + 2, Digits))
         ELSE applyExponent(s, mant, fracLen, FALSE, r + 1,
                            SkipWhile(s, r + 1, Digits))
    ELSE Num(mant, Pow10(fracLen))

\* parseFloat with the integer digits read (intLen of them, worth intVal)
\* and the fraction digits found at s[f], ..., s[r-1]: NaN when there is
\* no digit at all.
parseMantissa(s, sign, intLen, intVal, f, r) ==
    IF intLen = 0 /\ r = f THEN NaN
    ELSE parseExponent(s, sign * (intVal * Pow10(r - f) + DigitsValue(s, f, r)),
                       r - f, r)

\* parseFloat with the integer digits at s[p], ..., s[q-1].
parseFraction(s, sign, p, q) ==
    IF q <= Len(s) /\ s[q] = "."
    THEN parseMantissa(s, sign, q - p, DigitsValue(s, p, q), q + 1,
                       SkipWhile(s, q + 1, Digits))
    ELSE parseMantissa(s, sign, q - p, DigitsValue(s, p, q), q, q)

\* parseFloat after the sign, at index p.
parseUnsigned(s, sign, p) ==
    IF StartsWithAt(s, p, <<"I", "n", "f", "i", "n", "i", "t", "y">>)
    THEN Infinite(sign)
    ELSE parseFraction(s, sign, p, SkipWhile(s, p, Digits))

\* parseFloat after the leading white space, at index p0.
parseSigned(s, p0) ==
    IF p0 <= Len(s) /\ s[p0] \in {"+", "-"}
    THEN parseUnsigned(s, IF s[p0] = "-" THEN -1 ELSE 1, p0 + 1)
    ELSE parseUnsigned(s, 1, p0)

\* parseFloat: skips leading white space and converts the longest prefix
\* that is a decimal literal ([+-] then Infinity, or digits [. digits]
\* [e [+-] digits], or . digits [e ...]); NaN when there is no such prefix.
parseFloat(s) == parseSigned(s, SkipWhile(s, 1, WhiteSpace))

RECURSIVE IntText(_)
\* The decimal digits of a natural number.
IntText(n) ==
    IF n < 10 THEN <<DigitChar(n)>>
    ELSE IntText(n \div 10) \o <<DigitChar(n % 10)>>

\* Number.prototype.toFixed(2): the text of the nearest multiple of 0.01
\* (the larger one on a tie), with exactly two fraction digits.
toFixed2(x) ==
    LET a == IF x.num < 0 THEN -x.num ELSE x.num
        h == (200 * a + x.den) \div (2 * x.den)
        body == IntText(h \div 100)
                  \o <<".", DigitChar((h % 100) \div 10), DigitChar(h % 10)>>
    IN  Str(IF x.num < 0 /\ h > 0 THEN <<"-">> \o body ELSE body)

\* Math.random(): a number in [0, 1); sample k stands for k/RandDen.
RandomSamples == {0, RandDen - 1}
MathRandom(k) == [kind |-> "number", num |-> k, den |-> RandDen]

\* x * c + b for a number x and integers c, b (not reduced: the result is
\* only ever handed to toFixed).
ScaleShift(x, c, b) == [kind |-> "number", num |-> x.num * c + b * x.den, den |-> x.den]

UpperCase == <<"A", "B", "C", "D", "E", "F", "G", "H", "I", "J", "K", "L", "M",
               "N", "O", "P", "Q", "R", "S", "T", "U", "V", "W", "X", "Y", "Z">>
LowerCase == <<"a", "b", "c", "d", "e", "f", "g", "h", "i", "j", "k", "l", "m",
               "n", "o", "p", "q", "r", "s", "t", "u", "v", "w", "x", "y", "z">>

\* String.prototype.toLowerCase
toLowerCase(s) ==
    [i \in 1..Len(s) |->
        IF \E j \in 1..26 : UpperCase[j] = s[i]
        THEN LowerCase[CHOOSE j \in 1..26 : UpperCase[j] = s[i]]
        ELSE s[i]]

\* Number(v) for the values a Float node can hold: a number is itself and
\* a numeric text is the number it spells.
ToNumber(v) == IF v.kind = "string" THEN parseFloat(v.text) ELSE v

\* Date.prototype.toISOString: the text "...THH:MM:SS.mmmZ" of an instant,
\* kept as its two fields <<whole seconds, milliseconds>>.
toISOString(t) == <<t \div 1000, t % 1000>>

\* A variant of getUtcTimestamp that always gives the instant 0.
getUtcTimestamp_Epoch(t) == toISOString(0)

\* new Date().toISOString() at wall-clock instant t.
getUtcTimestamp(t) == toISOString(t)

\* Text order of two ISO timestamps (field by field, as the fixed-width
\* text compares character by character).
IsoBefore(a, b) == a[1] < b[1] \/ (a[1] = b[1] /\ a[2] < b[2])

\* A variant of nextDue for an interval of 0 ms.
nextDue_Immediate(t) == t

\* setInterval(callback, 2000): a timer armed at instant t is due one
\* period later.
nextDue(t) == t + Period

\* Names every plain object inherits from Object.prototype: obj[name] is a
\* function (truthy) although obj has no own property of that name.
ObjectPrototypeKeys ==
    {"constructor", "toString", "valueOf", "hasOwnProperty", "__proto__"}

----------------------------------------------------------------------------
\* The address space. A JavaScript object used as a map keeps its own
\* properties in insertion order: it is a sequence of nodes, each stored
\* under its own nodeId as key (as the constructor builds it).

ROOT == "ns=0;i=84"
FOLDER == "ns=1;s=Folder1"
TEMPERATURE == "ns=1;s=Temperature"
PRESSURE == "ns=1;s=Pressure"
STATUS == "ns=1;s=Status"
DEVICENAME == "ns=1;s=DeviceName"

VariableIds == {TEMPERATURE, PRESSURE, STATUS, DEVICENAME}
TreeIds == {ROOT, FOLDER} \cup VariableIds

\* new SimulatedOpcUaServer(): the tree the constructor builds, the four
\* timestamps being the instants of its four getUtcTimestamp() calls.
InitialAddressSpace(t1, t2, t3, t4) ==
    << [browseName |-> "Objects", nodeId |-> ROOT, nodeClass |-> "Object",
        children |->
        << [browseName |-> "MyDevices", nodeId |-> FOLDER, nodeClass |-> "Object",
            children |->
            << [browseName |-> "Temperature", nodeId |-> TEMPERATURE,
                nodeClass |-> "Variable", dataType |-> "Float",
                value |-> Num(255, 10), accessLevel |-> "ReadWrite",
                timestamp |-> getUtcTimestamp(t1)],
               [browseName |-> "Pressure", nodeId |-> PRESSURE,
                nodeClass |-> "Variable", dataType |-> "Float",
                value |-> Num(1012, 10), accessLevel |-> "ReadWrite",
                timestamp |-> getUtcTimestamp(t2)],
               [browseName |-> "Status", nodeId |-> STATUS,
                nodeClass |-> "Variable", dataType |-> "Boolean",
                value |-> Bool(TRUE), accessLevel |-> "ReadOnly",
                timestamp |-> getUtcTimestamp(t3)],
               [browseName |-> "DeviceName", nodeId |-> DEVICENAME,
                nodeClass |-> "Variable", dataType |-> "String",
                value |-> Str(<<"S", "e", "n", "s", "o", "r", "U", "n", "i", "t", "-", "A">>),
                accessLevel |-> "ReadOnly",
                timestamp |-> getUtcTimestamp(t4)] >> ] >> ] >>

\* The index of the own property key of the map space (0 when none).
OwnIndex(space, key) ==
    IF \E i \in 1..Len(space) : space[i].nodeId = key
    THEN CHOOSE i \in 1..Len(space) : space[i].nodeId = key
    ELSE 0

\* What a failed lookup yields (null), and a reference to what a lookup
\* found: the object and, for a node of the tree, where it sits (the
\* indices from the root map down), so that an assignment through the
\* reference changes the tree.
NullRef == [found |-> FALSE, path |-> <<>>]
BuiltinRef(key) == [found |-> TRUE, path |-> <<>>, node |-> [builtin |-> key]]
NodeRef(node, path) == [found |-> TRUE, path |-> path, node |-> node]

RECURSIVE findNodeIn(_, _, _)
RECURSIVE findNodeInChildren(_, _, _, _)
\* findNode(nodeId, currentSpace): currentSpace[nodeId] when that is truthy
\* (an own property, or one inherited from Object.prototype), else the
\* first hit of a depth-first search through the children maps.
findNodeIn(nodeId, currentSpace, prefix) ==
    IF OwnIndex(currentSpace, nodeId) # 0
      THEN NodeRef(currentSpace[OwnIndex(currentSpace, nodeId)],
                   Append(prefix, OwnIndex(currentSpace, nodeId)))
    ELSE IF nodeId \in ObjectPrototypeKeys THEN BuiltinRef(nodeId)
    ELSE findNodeInChildren(nodeId, currentSpace, prefix, 1)

\* The for-in loop of findNode, from the i-th key on.
findNodeInChildren(nodeId, currentSpace, prefix, i) ==
    IF i > Len(currentSpace) THEN NullRef
    ELSE LET found == IF "children" \in DOMAIN currentSpace[i]
                      THEN findNodeIn(nodeId, currentSpace[i].children, Append(prefix, i))
                      ELSE NullRef
         IN  IF found.found THEN found
             ELSE findNodeInChildren(nodeId, currentSpace, prefix, i + 1)

findNode(space, nodeId) == findNodeIn(nodeId, space, <<>>)

\* node.nodeClass === 'Variable' (false for an object without nodeClass).
IsVariable(ref) ==
    ref.found /\ "nodeClass" \in DOMAIN ref.node /\ ref.node.nodeClass = "Variable"

\* parentNode.children is truthy.
HasChildren(ref) == ref.found /\ "children" \in DOMAIN ref.node

\* A variant of IsWritable without the access-level test.
IsWritable_Always(node) == TRUE

\* node.accessLevel === 'ReadWrite'
IsWritable(node) == node.accessLevel = "ReadWrite"

RECURSIVE assignField(_, _, _, _)
\* node.field = v for the node at path: the tree after the assignment.
assignField(space, path, field, v) ==
    IF Len(path) = 1 THEN [space EXCEPT ![path[1]][field] = v]
    ELSE [space EXCEPT ![path[1]].children = assignField(@, Tail(path), field, v)]

\* A variant of HasSubscription that finds no entry truthy.
HasSubscription_Never(subs, nodeId) == FALSE

\* this.subscriptions[nodeId] is truthy: an own property (a callback), or
\* a name inherited from Object.prototype.
HasSubscription(subs, nodeId) ==
    nodeId \in DOMAIN subs \/ nodeId \in ObjectPrototypeKeys

----------------------------------------------------------------------------
\* The methods of SimulatedOpcUaServer, as functions of the state they
\* read. Each yields the value returned and, where it assigns, the state
\* after.

null == [kind |-> "null"]

\* A variant of readNode that reads the tree as it was constructed.
readNode_Constructed(space, nodeId) ==
    LET ref == findNode(InitialAddressSpace(0, 0, 0, 0), nodeId)
    IN  IF IsVariable(ref)
        THEN [value |-> ref.node.value, dataType |-> ref.node.dataType,
              accessLevel |-> ref.node.accessLevel, timestamp |-> ref.node.timestamp]
        ELSE null

\* readNode(nodeId)
readNode(space, nodeId) ==
    LET ref == findNode(space, nodeId)
    IN  IF IsVariable(ref)
        THEN [value |-> ref.node.value, dataType |-> ref.node.dataType,
              accessLevel |-> ref.node.accessLevel, timestamp |-> ref.node.timestamp]
        ELSE null

\* The switch of writeNode: the converted value, or the message of the
\* Error thrown.
convertValue(dataType, newValue) ==
    CASE dataType = "Float" ->
           IF isNaN(parseFloat(newValue))
           THEN [thrown |-> TRUE, message |-> "Invalid float value."]
           ELSE [thrown |-> FALSE, value |-> parseFloat(newValue)]
      [] dataType = "Boolean" ->
           [thrown |-> FALSE,
            value |-> Bool(toLowerCase(newValue) = <<"t", "r", "u", "e">>
                             \/ newValue = <<"1">>)]
      [] dataType = "String" -> [thrown |-> FALSE, value |-> Str(newValue)]
      [] OTHER -> [thrown |-> FALSE, value |-> Str(newValue)]

\* A variant of notify that never calls the subscriber.
notify_Never(subs, nodeId, value, timestamp) == << >>

\* this.subscriptions[nodeId](value, timestamp) when the entry is truthy:
\* the invocations made (of the callback stored under nodeId).
notify(subs, nodeId, value, timestamp) ==
    IF HasSubscription(subs, nodeId) /\ nodeId \in DOMAIN subs
    THEN << [callback |-> subs[nodeId], key |-> nodeId,
             value |-> value, timestamp |-> timestamp] >>
    ELSE << >>

\* What readNode of its node returns to each of the callbacks invoked,
\* the tree being space while they run.
callbackReads(space, invoked) ==
    [i \in DOMAIN invoked |-> readNode(space, invoked[i].key)]

\* writeNode(nodeId, newValue) at wall-clock instant t.
writeNode(space, subs, nodeId, newValue, t) ==
    LET ref == findNode(space, nodeId)
        unchanged == [space |-> space, calls |-> << >>, mutated |-> << >>,
                      reads |-> << >>]
    IN  IF ~IsVariable(ref)
          THEN unchanged @@
               [result |-> [success |-> FALSE,
                            message |-> [template |-> "Node '{nodeId}' not found or not a Variable.",
                                         nodeId |-> nodeId]]]
        ELSE IF ~IsWritable(ref.node)
          THEN unchanged @@
               [result |-> [success |-> FALSE,
                            message |-> [template |-> "Node '{browseName}' is ReadOnly.",
                                         browseName |-> ref.node.browseName]]]
        ELSE LET converted == convertValue(ref.node.dataType, newValue)
             IN  IF converted.thrown
                   THEN unchanged @@
                        [result |-> [success |-> FALSE,
                                     message |-> [template |-> "{e.message} for {dataType} type.",
                                                  error |-> converted.message,
                                                  dataType |-> ref.node.dataType]]]
                 ELSE LET ts == getUtcTimestamp(t)
                          written == assignField(
                                       assignField(space, ref.path, "value", converted.value),
                                       ref.path, "timestamp", ts)
                      IN  [space |-> written,
                           calls |-> notify(subs, nodeId, converted.value, ts),
                           reads |-> callbackReads(written,
                                       notify(subs, nodeId, converted.value, ts)),
                           mutated |-> <<ref.node.nodeId>>,
                           result |-> [success |-> TRUE,
                                       message |-> [template |-> "Value of {browseName} updated to {value}",
                                                    browseName |-> ref.node.browseName,
                                                    value |-> converted.value],
                                       timestamp |-> ts,
                                       dataType |-> ref.node.dataType]]

\* A variant of browseEntry that reports no entry as having children.
browseEntry_Childless(node) ==
    [nodeId |-> node.nodeId, browseName |-> node.browseName,
     nodeClass |-> node.nodeClass, hasChildren |-> FALSE]
    @@ (IF "dataType" \in DOMAIN node THEN [dataType |-> node.dataType] ELSE << >>)
    @@ (IF "value" \in DOMAIN node THEN [value |-> node.value] ELSE << >>)
    @@ (IF "timestamp" \in DOMAIN node THEN [timestamp |-> node.timestamp] ELSE << >>)

\* One entry of the list browseNodes returns. A property whose value is
\* undefined (dataType, value, timestamp of an Object node) is left out.
browseEntry(node) ==
    [nodeId |-> node.nodeId, browseName |-> node.browseName,
     nodeClass |-> node.nodeClass,
     hasChildren |-> ("children" \in DOMAIN node /\ Len(node.children) > 0)]
    @@ (IF "dataType" \in DOMAIN node THEN [dataType |-> node.dataType] ELSE << >>)
    @@ (IF "value" \in DOMAIN node THEN [value |-> node.value] ELSE << >>)
    @@ (IF "timestamp" \in DOMAIN node THEN [timestamp |-> node.timestamp] ELSE << >>)

\* A variant of browseNodes that lists the root's children when the parent
\* is not found.
browseNodes_DefaultsToRoot(space, parentNodeId) ==
    LET parentNode == findNode(space, parentNodeId)
        shown == IF HasChildren(parentNode) THEN parentNode.node.children
                 ELSE IF parentNode.found THEN << >>
                 ELSE space[1].children
    IN  [i \in 1..Len(shown) |-> browseEntry(shown[i])]

\* browseNodes(parentNodeId)
browseNodes(space, parentNodeId) ==
    LET parentNode == findNode(space, parentNodeId)
    IN  IF HasChildren(parentNode)
        THEN [i \in 1..Len(parentNode.node.children) |->
                browseEntry(parentNode.node.children[i])]
        ELSE << >>

\* A variant of subscribe without the nodeClass test: any node of the tree
\* can be subscribed.
subscribe_NoClassCheck(space, subs, nodeId, callback) ==
    LET ref == findNode(space, nodeId)
    IN  IF ref.found /\ "browseName" \in DOMAIN ref.node
        THEN [subs |-> [k \in DOMAIN subs \cup {nodeId} |->
                          IF k = nodeId THEN callback ELSE subs[k]],
              result |-> [success |-> TRUE,
                          message |-> [template |-> "Subscribed to '{browseName}'.",
                                       browseName |-> ref.node.browseName]]]
        ELSE [subs |-> subs,
              result |-> [success |-> FALSE,
                          message |-> [template |-> "Cannot subscribe to '{nodeId}'. Not a Variable.",
                                       nodeId |-> nodeId]]]

\* A variant of subscribe that keeps a callback already stored for the node.
subscribe_KeepsFirst(space, subs, nodeId, callback) ==
    LET ref == findNode(space, nodeId)
    IN  IF IsVariable(ref)
        THEN [subs |-> [k \in DOMAIN subs \cup {nodeId} |->
                          IF k \in DOMAIN subs THEN subs[k] ELSE callback],
              result |-> [success |-> TRUE,
                          message |-> [template |-> "Subscribed to '{browseName}'.",
                                       browseName |-> ref.node.browseName]]]
        ELSE [subs |-> subs,
              result |-> [success |-> FALSE,
                          message |-> [template |-> "Cannot subscribe to '{nodeId}'. Not a Variable.",
                                       nodeId |-> nodeId]]]

\* subscribe(nodeId, callback)
subscribe(space, subs, nodeId, callback) ==
    LET ref == findNode(space, nodeId)
    IN  IF IsVariable(ref)
        THEN [subs |-> [k \in DOMAIN subs \cup {nodeId} |->
                          IF k = nodeId THEN callback ELSE subs[k]],
              result |-> [success |-> TRUE,
                          message |-> [template |-> "Subscribed to '{browseName}'.",
                                       browseName |-> ref.node.browseName]]]
        ELSE [subs |-> subs,
              result |-> [success |-> FALSE,
                          message |-> [template |-> "Cannot subscribe to '{nodeId}'. Not a Variable.",
                                       nodeId |-> nodeId]]]

\* unsubscribe(nodeId)
unsubscribe(subs, nodeId) ==
    IF HasSubscription(subs, nodeId)
    THEN [subs |-> [k \in DOMAIN subs \ {nodeId} |-> subs[k]],
          result |-> [success |-> TRUE,
                      message |-> [template |-> "Unsubscribed from '{nodeId}'.",
                                   nodeId |-> nodeId]]]
    ELSE [subs |-> subs,
          result |-> [success |-> FALSE,
                      message |-> [template |-> "No active subscription for '{nodeId}'.",
                                   nodeId |-> nodeId]]]

\* A variant of simulateNode that calls the subscriber, with the new value
\* and timestamp, before it assigns them to the node.
simulateNode_NotifiesFirst(space, subs, nodeId, sample, scale, base, t) ==
    LET ref == findNode(space, nodeId)
        value == toFixed2(ScaleShift(MathRandom(sample), scale, base))
        ts == getUtcTimestamp(t)
    IN  IF ref.found
        THEN [space |-> assignField(assignField(space, ref.path, "value", value),
                                    ref.path, "timestamp", ts),
              calls |-> notify(subs, nodeId, value, ts),
              reads |-> callbackReads(space, notify(subs, nodeId, value, ts)),
              mutated |-> <<nodeId>>]
        ELSE [space |-> space, calls |-> << >>, reads |-> << >>, mutated |-> << >>]

\* One half of the timer callback of startDataSimulation: the node nodeId
\* gets (Math.random() * scale + base).toFixed(2) and a fresh timestamp,
\* and its subscriber is called.
simulateNode(space, subs, nodeId, sample, scale, base, t) ==
    LET ref == findNode(space, nodeId)
        value == toFixed2(ScaleShift(MathRandom(sample), scale, base))
        ts == getUtcTimestamp(t)
        assigned == assignField(assignField(space, ref.path, "value", value),
                                ref.path, "timestamp", ts)
    IN  IF ref.found
        THEN [space |-> assigned,
              calls |-> notify(subs, nodeId, value, ts),
              reads |-> callbackReads(assigned, notify(subs, nodeId, value, ts)),
              mutated |-> <<nodeId>>]
        ELSE [space |-> space, calls |-> << >>, reads |-> << >>, mutated |-> << >>]

\* A variant of the timer callback that does not call Pressure's subscriber.
simulationTick_SkipsPressureNotify(space, subs, sampleT, sampleP, t, d) ==
    LET first == simulateNode(space, subs, TEMPERATURE, sampleT, 10, 20, t)
        second == simulateNode(first.space, subs, PRESSURE, sampleP, 5, 98, t + d)
    IN  [space |-> second.space,
         calls |-> first.calls,
         reads |-> first.reads,
         mutated |-> first.mutated \o second.mutated]

\* A variant of the timer callback with the two value ranges exchanged.
simulationTick_SwappedRanges(space, subs, sampleT, sampleP, t, d) ==
    LET first == simulateNode(space, subs, TEMPERATURE, sampleT, 5, 98, t)
        second == simulateNode(first.space, subs, PRESSURE, sampleP, 10, 20, t + d)
    IN  [space |-> second.space,
         calls |-> first.calls \o second.calls,
         reads |-> first.reads \o second.reads,
         mutated |-> first.mutated \o second.mutated]

\* A variant of the timer callback that also refreshes Status.
simulationTick_AlsoStatus(space, subs, sampleT, sampleP, t, d) ==
    LET first == simulateNode(space, subs, TEMPERATURE, sampleT, 10, 20, t)
        second == simulateNode(first.space, subs, PRESSURE, sampleP, 5, 98, t + d)
        third == simulateNode(second.space, subs, STATUS, sampleP, 0, 1, t + d)
    IN  [space |-> third.space,
         calls |-> first.calls \o second.calls,
         reads |-> first.reads \o second.reads,
         mutated |-> first.mutated \o second.mutated]

\* The timer callback: Temperature at instant t, then Pressure at t + d.
simulationTick(space, subs, sampleT, sampleP, t, d) ==
    LET first == simulateNode(space, subs, TEMPERATURE, sampleT, 10, 20, t)
        second == simulateNode(first.space, subs, PRESSURE, sampleP, 5, 98, t + d)
    IN  [space |-> second.space,
         calls |-> first.calls \o second.calls,
         reads |-> first.reads \o second.reads,
         mutated |-> first.mutated \o second.mutated]

\* A variant of startDataSimulation without the test of the stored timer:
\* every call sets a new interval timer.
startDataSimulation_AlwaysSets(interval, active, seq, t) ==
    [updateInterval |-> seq + 1,
     timers |-> [id \in DOMAIN active \cup {seq + 1} |->
                   IF id = seq + 1 THEN nextDue(t) ELSE active[id]],
     timerSeq |-> seq + 1]

\* startDataSimulation() at instant t, with this.updateInterval = interval,
\* the runtime's timers active and seq timers set so far: returns at once
\* when a timer is stored, else setInterval(callback, 2000) and its id is
\* stored.
startDataSimulation(interval, active, seq, t) ==
    IF interval # 0
    THEN [updateInterval |-> interval, timers |-> active, timerSeq |-> seq]
    ELSE [updateInterval |-> seq + 1,
          timers |-> [id \in DOMAIN active \cup {seq + 1} |->
                        IF id = seq + 1 THEN nextDue(t) ELSE active[id]],
          timerSeq |-> seq + 1]

\* A variant of stopDataSimulation that forgets the stored id without
\* clearInterval.
stopDataSimulation_KeepsTimer(interval, active) ==
    [updateInterval |-> 0, timers |-> active]

\* stopDataSimulation(): clearInterval of the stored timer, if any.
stopDataSimulation(interval, active) ==
    IF interval # 0
    THEN [updateInterval |-> 0,
          timers |-> [id \in DOMAIN active \ {interval} |-> active[id]]]
    ELSE [updateInterval |-> interval, timers |-> active]

----------------------------------------------------------------------------
\* Inputs.

\* Node ids a caller passes: the six of the tree, one that names nothing,
\* and one that names a property of Object.prototype.
MISSING == "ns=1;s=Missing"
NodeIdInputs == TreeIds \cup {MISSING, "constructor"}

\* Texts a caller writes: "26.75", "not-a-number", and " +2675e-2x" (white
\* space, a sign, an exponent and text after the number: 26.75 again).
TEXT_26_75 == <<"2", "6", ".", "7", "5">>
TEXT_NOT_A_NUMBER == <<"n", "o", "t", "-", "a", "-", "n", "u", "m", "b", "e", "r">>
TEXT_PREFIX == <<" ", "+", "2", "6", "7", "5", "e", "-", "2", "x">>
Texts == {TEXT_26_75, TEXT_NOT_A_NUMBER, TEXT_PREFIX}

\* Callbacks a caller subscribes.
Callbacks == {"cb1", "cb2"}

----------------------------------------------------------------------------
\* The state after construction: the tree, no subscription, no timer; the
\* client is not connected and subscribed to nothing, and window.onload has
\* not run yet. The constructor's four getUtcTimestamp() calls fall in the
\* millisecond the clock starts at.
Init ==
    /\ addressSpace = InitialAddressSpace(0, 0, 0, 0)
    /\ now = 0
    /\ subscriptions = << >>
    /\ updateInterval = 0
    /\ timers = << >>
    /\ timerSeq = 0
    /\ op = [name |-> "constructor"]
    /\ result = null
    /\ calls = << >>
    /\ mutated = << >>
    /\ superseded = {}
    /\ lastTick = << >>
    /\ isConnected = FALSE
    /\ subscribedNodeId = << >>
    /\ page = [loaded |-> FALSE]
    /\ reads = << >>

\* server.readNode(nodeId)
ReadNode(nodeId) ==
    /\ op' = [name |-> "readNode", nodeId |-> nodeId]
    /\ result' = readNode(addressSpace, nodeId)
    /\ calls' = << >>
    /\ reads' = << >>
    /\ mutated' = << >>
    /\ UNCHANGED <<addressSpace, subscriptions, updateInterval, timers, timerSeq, now,
                   superseded, lastTick, client>>

\* server.writeNode(nodeId, newValue)
WriteNode(nodeId, newValue) ==
    LET w == writeNode(addressSpace, subscriptions, nodeId, newValue, now)
    IN  /\ op' = [name |-> "writeNode", nodeId |-> nodeId, newValue |-> newValue]
        /\ addressSpace' = w.space
        /\ result' = w.result
        /\ calls' = w.calls
        /\ reads' = w.reads
        /\ mutated' = w.mutated
        /\ UNCHANGED <<subscriptions, updateInterval, timers, timerSeq, now,
                       superseded, lastTick, client>>

\* server.browseNodes(parentNodeId)
BrowseNodes(parentNodeId) ==
    /\ op' = [name |-> "browseNodes", nodeId |-> parentNodeId]
    /\ result' = browseNodes(addressSpace, parentNodeId)
    /\ calls' = << >>
    /\ reads' = << >>
    /\ mutated' = << >>
    /\ UNCHANGED <<addressSpace, subscriptions, updateInterval, timers, timerSeq, now,
                   superseded, lastTick, client>>

\* server.subscribe(nodeId, callback)
Subscribe(nodeId, callback) ==
    LET r == subscribe(addressSpace, subscriptions, nodeId, callback)
    IN  /\ op' = [name |-> "subscribe", nodeId |-> nodeId, callback |-> callback]
        /\ subscriptions' = r.subs
        /\ result' = r.result
        /\ calls' = << >>
        /\ reads' = << >>
        /\ mutated' = << >>
        /\ superseded' =
              IF r.result.success
              THEN (superseded
                      \cup (IF nodeId \in DOMAIN subscriptions
                            THEN {<<nodeId, subscriptions[nodeId]>>} ELSE {}))
                   \ {<<nodeId, callback>>}
              ELSE superseded
        /\ UNCHANGED <<addressSpace, updateInterval, timers, timerSeq, now, lastTick, client>>

\* server.unsubscribe(nodeId)
Unsubscribe(nodeId) ==
    LET r == unsubscribe(subscriptions, nodeId)
    IN  /\ op' = [name |-> "unsubscribe", nodeId |-> nodeId]
        /\ subscriptions' = r.subs
        /\ result' = r.result
        /\ calls' = << >>
        /\ reads' = << >>
        /\ mutated' = << >>
        /\ superseded' = IF r.result.success
                         THEN {e \in superseded : e[1] # nodeId}
                         ELSE superseded
        /\ UNCHANGED <<addressSpace, updateInterval, timers, timerSeq, now, lastTick, client>>

\* server.startDataSimulation()
StartDataSimulation ==
    LET r == startDataSimulation(updateInterval, timers, timerSeq, now)
    IN  /\ r.timerSeq <= MaxTimers
        /\ updateInterval' = r.updateInterval
        /\ timers' = r.timers
        /\ timerSeq' = r.timerSeq
        /\ op' = [name |-> "startDataSimulation"]
        /\ result' = null
        /\ calls' = << >>
        /\ reads' = << >>
        /\ mutated' = << >>
        /\ UNCHANGED <<addressSpace, subscriptions, now, superseded, lastTick, client>>

\* server.stopDataSimulation()
StopDataSimulation ==
    LET r == stopDataSimulation(updateInterval, timers)
    IN  /\ updateInterval' = r.updateInterval
        /\ timers' = r.timers
        /\ op' = [name |-> "stopDataSimulation"]
        /\ result' = null
        /\ calls' = << >>
        /\ reads' = << >>
        /\ mutated' = << >>
        /\ UNCHANGED <<addressSpace, subscriptions, timerSeq, now, superseded, lastTick,
                       client>>

\* The runtime runs the callback of interval timer id: not before the
\* timer is due; the timer is then due again one period later. While the
\* callback runs the clock may move on by d milliseconds.
Tick(id, sampleT, sampleP, d) ==
    /\ id \in DOMAIN timers
    /\ now >= timers[id]
    /\ now + d <= MaxTime
    /\ d > 0 => (now % Period) + d <= MaxJitter
    /\ LET tick == simulationTick(addressSpace, subscriptions, sampleT, sampleP, now, d)
       IN  /\ addressSpace' = tick.space
           /\ calls' = tick.calls
           /\ reads' = tick.reads
           /\ mutated' = tick.mutated
           /\ lastTick' = <<findNode(tick.space, TEMPERATURE).node.timestamp,
                            findNode(tick.space, PRESSURE).node.timestamp>>
    /\ now' = now + d
    /\ timers' = [timers EXCEPT ![id] = nextDue(now + d)]
    /\ op' = [name |-> "tick", timer |-> id]
    /\ result' = null
    /\ UNCHANGED <<subscriptions, updateInterval, timerSeq, superseded, client>>

\* Time passes: by a millisecond, or by a timer period.
Advance(d) ==
    /\ now + d <= MaxTime
    /\ d < Period => (now % Period) + d <= MaxJitter
    /\ now' = now + d
    /\ op' = [name |-> "advance"]
    /\ result' = null
    /\ calls' = << >>
    /\ reads' = << >>
    /\ mutated' = << >>
    /\ UNCHANGED <<addressSpace, subscriptions, updateInterval, timers, timerSeq,
                   superseded, lastTick, client>>

\* The simulation clock together with every operation that assigns to the
\* server's state: writes, subscriptions, the timer's start, stop and
\* ticks. Subscriptions go to the two nodes the timer drives; texts are
\* written to Temperature, so that Pressure changes by ticks alone.
ClockNodeIds == {TEMPERATURE, PRESSURE}
ClockWriteIds == {TEMPERATURE}
ClockTexts == {TEXT_26_75, TEXT_NOT_A_NUMBER}

Next ==
    \/ \E nodeId \in ClockWriteIds, newValue \in ClockTexts : WriteNode(nodeId, newValue)
    \/ \E nodeId \in ClockNodeIds, callback \in Callbacks : Subscribe(nodeId, callback)
    \/ \E nodeId \in ClockNodeIds : Unsubscribe(nodeId)
    \/ StartDataSimulation
    \/ StopDataSimulation
    \/ \E id \in 1..MaxTimers, sampleT, sampleP \in RandomSamples, d \in 0..1 :
          Tick(id, sampleT, sampleP, d)
    \/ Advance(Period)

Spec == Init /\ [][Next]_vars

\* The callers of read, write, browse, subscribe and unsubscribe, with
\* every node id and text, while the timer is not started.
AccessCallbacks == {"cb1"}

NextAccess ==
    \/ \E nodeId \in NodeIdInputs : ReadNode(nodeId)
    \/ \E nodeId \in NodeIdInputs, newValue \in Texts : WriteNode(nodeId, newValue)
    \/ \E nodeId \in NodeIdInputs : BrowseNodes(nodeId)
    \/ \E nodeId \in NodeIdInputs, callback \in AccessCallbacks : Subscribe(nodeId, callback)
    \/ \E nodeId \in NodeIdInputs : Unsubscribe(nodeId)
    \/ Advance(1)

SpecAccess == Init /\ [][NextAccess]_vars

----------------------------------------------------------------------------
\* The client: the handlers init() attaches to the buttons, on the one
\* server. The text of an input field is a sequence of one-character
\* strings for a value, and for a node id a sequence whose members are
\* white-space characters and at most one node id.

\* String.prototype.trim: the text without its leading and trailing white
\* space.
trim(s) ==
    LET first == SkipWhile(s, 1, WhiteSpace)
        last == CHOOSE j \in 0..Len(s) :
                   /\ j = 0 \/ s[j] \notin WhiteSpace
                   /\ \A k \in (j + 1)..Len(s) : s[k] \in WhiteSpace
    IN  SubSeq(s, first, last)

\* The node id a trimmed node-id field holds ("" when it is empty).
FieldNodeId(trimmed) == IF trimmed = << >> THEN "" ELSE trimmed[1]

\* A variant of updateClientButtons that disables no button.
updateClientButtons_NoneDisabled(connected) ==
    [loaded |-> TRUE,
     connectBtn |-> FALSE, disconnectBtn |-> FALSE,
     readBtn |-> FALSE, writeBtn |-> FALSE, subscribeBtn |-> FALSE]

\* updateClientButtons(): the disabled property of each button.
updateClientButtons(connected) ==
    [loaded |-> TRUE,
     connectBtn |-> connected, disconnectBtn |-> ~connected,
     readBtn |-> ~connected, writeBtn |-> ~connected, subscribeBtn |-> ~connected]

\* A click on a button runs its listener when init() has added it and the
\* button is not disabled.
Clickable(button) == page.loaded /\ ~page[button]

\* The arrow function handleSubscribe passes to server.subscribe.
LogCallback == "subscriptionLogEntry"

\* The history of replaced callbacks after subscribe(nodeId, callback) on
\* the registry subs, and after unsubscribe(nodeId).
supersededBySubscribe(history, subs, nodeId, callback, success) ==
    IF success
    THEN (history \cup (IF nodeId \in DOMAIN subs
                        THEN {<<nodeId, subs[nodeId]>>} ELSE {}))
         \ {<<nodeId, callback>>}
    ELSE history
supersededByUnsubscribe(history, nodeId, success) ==
    IF success THEN {e \in history : e[1] # nodeId} ELSE history

\* A variant of the else branch of handleSubscribe that leaves the earlier
\* subscription on the server.
switchSubscription_KeepsOld(space, subs, history, current, nodeId) ==
    LET sub == subscribe(space, subs, nodeId, LogCallback)
    IN  [subs |-> sub.subs,
         superseded |-> supersededBySubscribe(history, subs, nodeId, LogCallback,
                                              sub.result.success),
         subscribedNodeId |-> IF sub.result.success THEN <<nodeId>> ELSE << >>,
         result |-> sub.result]

\* The else branch of handleSubscribe: the earlier subscription, if any, is
\* unsubscribed, then nodeId is subscribed; subscribedNodeId is nodeId when
\* that succeeds and null when it fails.
switchSubscription(space, subs, history, current, nodeId) ==
    LET old == IF current # << >>
               THEN unsubscribe(subs, current[1])
               ELSE [subs |-> subs, result |-> [success |-> FALSE]]
        cleared == IF current # << >>
                   THEN supersededByUnsubscribe(history, current[1], old.result.success)
                   ELSE history
        sub == subscribe(space, old.subs, nodeId, LogCallback)
    IN  [subs |-> sub.subs,
         superseded |-> supersededBySubscribe(cleared, old.subs, nodeId, LogCallback,
                                              sub.result.success),
         subscribedNodeId |-> IF sub.result.success THEN <<nodeId>> ELSE << >>,
         result |-> sub.result]

\* The then branch of handleSubscribe: the subscribed node is unsubscribed;
\* subscribedNodeId becomes null when that succeeds.
dropSubscription(subs, history, current, nodeId) ==
    LET r == unsubscribe(subs, nodeId)
    IN  [subs |-> r.subs,
         superseded |-> supersededByUnsubscribe(history, nodeId, r.result.success),
         subscribedNodeId |-> IF r.result.success THEN << >> ELSE current,
         result |-> r.result]

\* window.onload = init: the listeners are added and the server's
\* simulation is started. The buttons keep the disabled attributes of the
\* document html (updateClientButtons is not called here). The second
\* timer init() sets only redraws the local time.
init(html) ==
    LET r == startDataSimulation(updateInterval, timers, timerSeq, now)
    IN  /\ ~page.loaded
        /\ page' = [loaded |-> TRUE] @@ html
        /\ updateInterval' = r.updateInterval
        /\ timers' = r.timers
        /\ timerSeq' = r.timerSeq
        /\ op' = [name |-> "init"]
        /\ result' = null
        /\ calls' = << >>
        /\ reads' = << >>
        /\ mutated' = << >>
        /\ UNCHANGED <<addressSpace, subscriptions, now, superseded, lastTick,
                       isConnected, subscribedNodeId>>

\* handleConnect(): a click on connectBtn.
handleConnect ==
    LET r == IF isConnected
             THEN [updateInterval |-> updateInterval, timers |-> timers,
                   timerSeq |-> timerSeq]
             ELSE startDataSimulation(updateInterval, timers, timerSeq, now)
    IN  /\ Clickable("connectBtn")
        /\ r.timerSeq <= MaxTimers
        /\ isConnected' = TRUE
        /\ page' = IF isConnected THEN page ELSE updateClientButtons(TRUE)
        /\ updateInterval' = r.updateInterval
        /\ timers' = r.timers
        /\ timerSeq' = r.timerSeq
        /\ op' = [name |-> "handleConnect"]
        /\ result' = null
        /\ calls' = << >>
        /\ reads' = << >>
        /\ mutated' = << >>
        /\ UNCHANGED <<addressSpace, subscriptions, now, superseded, lastTick,
                       subscribedNodeId>>

\* handleDisconnect(): a click on disconnectBtn. The subscription the
\* client holds is unsubscribed, then the simulation is stopped. (op keeps
\* the subscribedNodeId the handler found.)
handleDisconnect ==
    LET u == IF subscribedNodeId # << >>
             THEN unsubscribe(subscriptions, subscribedNodeId[1])
             ELSE [subs |-> subscriptions, result |-> [success |-> FALSE]]
        r == stopDataSimulation(updateInterval, timers)
    IN  /\ Clickable("disconnectBtn")
        /\ IF ~isConnected
           THEN UNCHANGED <<subscriptions, superseded, updateInterval, timers,
                            isConnected, subscribedNodeId, page>>
           ELSE /\ isConnected' = FALSE
                /\ subscriptions' = u.subs
                /\ superseded' = IF subscribedNodeId # << >>
                                 THEN supersededByUnsubscribe(superseded, subscribedNodeId[1],
                                                              u.result.success)
                                 ELSE superseded
                /\ subscribedNodeId' = << >>
                /\ page' = updateClientButtons(FALSE)
                /\ updateInterval' = r.updateInterval
                /\ timers' = r.timers
        /\ op' = [name |-> "handleDisconnect", subscribedNodeId |-> subscribedNodeId]
        /\ result' = null
        /\ calls' = << >>
        /\ reads' = << >>
        /\ mutated' = << >>
        /\ UNCHANGED <<addressSpace, timerSeq, now, lastTick>>

\* handleRead(): a click on readBtn with the text field in the node-id
\* input.
handleRead(field) ==
    LET nodeId == FieldNodeId(trim(field))
    IN  /\ Clickable("readBtn")
        /\ op' = [name |-> "handleRead", nodeId |-> nodeId]
        /\ result' = IF nodeId = "" THEN null ELSE readNode(addressSpace, nodeId)
        /\ calls' = << >>
        /\ reads' = << >>
        /\ mutated' = << >>
        /\ UNCHANGED <<addressSpace, subscriptions, updateInterval, timers, timerSeq, now,
                       superseded, lastTick, client>>

\* handleWrite(): a click on writeBtn with the texts field and valueField in
\* the two inputs.
handleWrite(field, valueField) ==
    LET nodeId == FieldNodeId(trim(field))
        newValue == trim(valueField)
        w == writeNode(addressSpace, subscriptions, nodeId, newValue, now)
    IN  /\ Clickable("writeBtn")
        /\ op' = [name |-> "handleWrite", nodeId |-> nodeId, newValue |-> newValue]
        /\ IF nodeId = "" \/ newValue = << >>
           THEN /\ result' = null
                /\ calls' = << >>
                /\ reads' = << >>
                /\ mutated' = << >>
                /\ UNCHANGED addressSpace
           ELSE /\ addressSpace' = w.space
                /\ result' = w.result
                /\ calls' = w.calls
                /\ reads' = w.reads
                /\ mutated' = w.mutated
        /\ UNCHANGED <<subscriptions, updateInterval, timers, timerSeq, now,
                       superseded, lastTick, client>>

\* handleSubscribe(): a click on subscribeBtn with the text field in the
\* node-id input.
handleSubscribe(field) ==
    LET nodeId == FieldNodeId(trim(field))
        r == IF subscribedNodeId = <<nodeId>>
             THEN dropSubscription(subscriptions, superseded, subscribedNodeId, nodeId)
             ELSE switchSubscription(addressSpace, subscriptions, superseded,
                                     subscribedNodeId, nodeId)
    IN  /\ Clickable("subscribeBtn")
        /\ op' = [name |-> "handleSubscribe", nodeId |-> nodeId,
                  subscribedNodeId |-> subscribedNodeId]
        /\ IF nodeId = ""
           THEN /\ result' = null
                /\ UNCHANGED <<subscriptions, superseded, subscribedNodeId, page>>
           ELSE /\ subscriptions' = r.subs
                /\ superseded' = r.superseded
                /\ subscribedNodeId' = r.subscribedNodeId
                /\ result' = r.result
                /\ page' = updateClientButtons(isConnected)
        /\ calls' = << >>
        /\ reads' = << >>
        /\ mutated' = << >>
        /\ UNCHANGED <<addressSpace, updateInterval, timers, timerSeq, now, lastTick,
                       isConnected>>

\* The documents init() may find: index.html with no button disabled, or
\* with every button but Connect disabled.
HtmlDocuments ==
    { [connectBtn |-> FALSE, disconnectBtn |-> d, readBtn |-> d, writeBtn |-> d,
       subscribeBtn |-> d] : d \in BOOLEAN }

\* Texts of the node-id input: empty, blank, a node id with or without
\* white space around it.
SubscribeFields ==
    { << >>, <<" ">>, <<TEMPERATURE>>, <<" ", PRESSURE, " ">>, <<STATUS>>, <<ROOT>>,
      <<MISSING>>, <<"constructor">> }
ReadFields == { <<PRESSURE>>, <<FOLDER>> }
WriteFields == { <<" ", TEMPERATURE>>, <<STATUS>>, <<DEVICENAME>> }
\* Texts of the value input.
ValueFields == { TEXT_PREFIX, <<" ">> }

\* The page: window.onload, the clicks on the five buttons, the timer's
\* ticks and the passing of time.
NextClient ==
    \/ \E html \in HtmlDocuments : init(html)
    \/ handleConnect
    \/ handleDisconnect
    \/ \E field \in ReadFields : handleRead(field)
    \/ \E field \in WriteFields, valueField \in ValueFields : handleWrite(field, valueField)
    \/ \E field \in SubscribeFields : handleSubscribe(field)
    \/ \E id \in 1..MaxTimers, sampleT, sampleP \in RandomSamples :
          Tick(id, sampleT, sampleP, 0)
    \/ Advance(Period)

SpecClient == Init /\ [][NextClient]_vars

\* An interval timer is due: the runtime can run its callback (the guard
\* of Tick, which always changes the state).
TickDue == \E id \in DOMAIN timers : now >= timers[id]

\* The page under a fair runtime: time passes, and the callback of an
\* interval timer is run when the timer stays due. The second condition is
\* the weak fairness of the Tick steps, written out with their enabling
\* condition TickDue.
SpecClientFair ==
    /\ Init /\ [][NextClient]_vars
    /\ WF_vars(Advance(Period))
    /\ ([]<>(~TickDue) \/ []<><<op'.name = "tick">>_vars)

----------------------------------------------------------------------------
\* Vocabulary of the properties.

\* The node stored under id in the tree space.
NodeIn(space, id) == findNode(space, id).node

RECURSIVE NodesOf(_)
\* Every node of a children map, at any depth.
NodesOf(space) ==
    UNION { {space[i]} \cup (IF "children" \in DOMAIN space[i]
                             THEN NodesOf(space[i].children) ELSE {})
            : i \in 1..Len(space) }

\* The identifiers of the nodes of the tree, and of its Variable nodes.
NodeIdsOf(space) == { n.nodeId : n \in NodesOf(space) }
VariableIdsOf(space) == { n.nodeId : n \in { m \in NodesOf(space) : m.nodeClass = "Variable" } }

\* The Variable node under id (a set: empty when there is none).
VariableAt(space, id) == { n \in NodesOf(space) : n.nodeId = id /\ n.nodeClass = "Variable" }

\* The registry subs without the entry of id, and with id bound to callback.
WithoutEntry(subs, id) == [k \in DOMAIN subs \ {id} |-> subs[k]]
WithEntry(subs, id, callback) ==
    [k \in DOMAIN subs \cup {id} |-> IF k = id THEN callback ELSE subs[k]]

\* lo <= v <= hi and lo <= v < hi for a number v = num/den.
InClosedRange(v, lo, hi) ==
    v.kind = "number" /\ v.den > 0 /\ lo * v.den <= v.num /\ v.num <= hi * v.den
InHalfOpenRange(v, lo, hi) ==
    v.kind = "number" /\ v.den > 0 /\ lo * v.den <= v.num /\ v.num < hi * v.den

----------------------------------------------------------------------------
\* C1. A write of a text that parses as a number to a ReadWrite Float
\* variable succeeds: the node holds the parsed number ("26.75" gives
\* 26.75) and the timestamp of the current instant, the result carries that
\* timestamp and the dataType, and the callback subscribed on that nodeId
\* is invoked exactly once with the new value and timestamp; without a
\* subscription nothing is invoked.
C1_WriteParseableFloat ==
    (op.name = "writeNode" /\ parseFloat(op.newValue) # NaN)
    => \A n \in { m \in VariableAt(addressSpace, op.nodeId) :
                    m.dataType = "Float" /\ m.accessLevel = "ReadWrite" } :
          /\ result.success
          /\ n.value = parseFloat(op.newValue)
          /\ op.newValue = TEXT_26_75
               => n.value = [kind |-> "number", num |-> 2675, den |-> 100]
          /\ n.timestamp = toISOString(now)
          /\ result.timestamp = n.timestamp
          /\ result.dataType = "Float"
          /\ mutated = <<op.nodeId>>
          /\ calls = IF op.nodeId \in DOMAIN subscriptions
                     THEN << [callback |-> subscriptions[op.nodeId], key |-> op.nodeId,
                              value |-> n.value, timestamp |-> n.timestamp] >>
                     ELSE << >>

\* C1's case: "26.75" written to Temperature one millisecond after
\* construction, with a subscription on Temperature.
C1_Witness ==
    /\ op.name = "writeNode" /\ op.nodeId = TEMPERATURE /\ op.newValue = TEXT_26_75
    /\ result.success
    /\ now = 1
    /\ Len(calls) = 1

\* C2. A write to a ReadOnly variable fails for every text, changes no
\* node (neither that one nor any other) and invokes no callback.
C2_ReadOnlyWriteRejected ==
    [][ (/\ op'.name = "writeNode"
         /\ \E n \in VariableAt(addressSpace, op'.nodeId) : n.accessLevel = "ReadOnly")
        => /\ ~result'.success
           /\ addressSpace' = addressSpace
           /\ subscriptions' = subscriptions
           /\ calls' = << >> ]_vars

\* C2's case: a text that no Float would accept, written to Status while
\* Status has a subscriber.
C2_Witness ==
    /\ op.name = "writeNode" /\ op.nodeId = STATUS /\ op.newValue = TEXT_NOT_A_NUMBER
    /\ ~result.success
    /\ result.message.template = "Node '{browseName}' is ReadOnly."
    /\ STATUS \in DOMAIN subscriptions

\* C3. A write to a Float variable of a text that parses to no number
\* fails with the invalid-float message, leaves every node's value and
\* timestamp as they were and invokes no callback, subscribed or not.
C3_InvalidFloatRejected ==
    [][ (/\ op'.name = "writeNode"
         /\ parseFloat(op'.newValue) = NaN
         /\ \E n \in VariableAt(addressSpace, op'.nodeId) :
               n.dataType = "Float" /\ n.accessLevel = "ReadWrite")
        => /\ ~result'.success
           /\ result'.message.template = "{e.message} for {dataType} type."
           /\ result'.message.error = "Invalid float value."
           /\ addressSpace' = addressSpace
           /\ calls' = << >> ]_vars

\* C3's case: "not-a-number" written to Temperature while it has a
\* subscriber.
C3_Witness ==
    /\ op.name = "writeNode" /\ op.nodeId = TEMPERATURE
    /\ op.newValue = TEXT_NOT_A_NUMBER
    /\ ~result.success
    /\ TEMPERATURE \in DOMAIN subscriptions

\* C4. For a nodeId that names no node of the tree, read returns null,
\* write fails, browse returns the empty list, and none of them changes
\* the address space or the registry.
C4_UnknownNodeId ==
    [][ (/\ op'.name \in {"readNode", "writeNode", "browseNodes"}
         /\ op'.nodeId \notin NodeIdsOf(addressSpace))
        => /\ addressSpace' = addressSpace
           /\ subscriptions' = subscriptions
           /\ calls' = << >>
           /\ op'.name = "readNode" => result' = null
           /\ op'.name = "writeNode" => ~result'.success
           /\ op'.name = "browseNodes" => result' = << >> ]_vars

\* C4's case: a browse of an id that names no node, while a subscription
\* is registered.
C4_Witness ==
    /\ op.name = "browseNodes" /\ op.nodeId = MISSING
    /\ result = << >>
    /\ DOMAIN subscriptions # {}

\* C5. Each step invokes exactly one callback per node it mutates that has
\* an active subscription - the callback registered on that node, with the
\* node's new value and timestamp - and nothing else: nothing for a node
\* without subscription (never subscribed, or unsubscribed), nothing for a
\* node the step does not mutate. Summed over a run, the invocations of a
\* callback subscribed on N are as many as the mutations of N, by writes
\* and ticks alike, made while it is the subscription on N.
C5_OneCallPerMutation ==
    [][ LET notified == SelectSeq(mutated', LAMBDA n : n \in DOMAIN subscriptions)
        IN  /\ IF mutated' = << >>
               THEN addressSpace' = addressSpace
               ELSE \A n \in VariableIdsOf(addressSpace) :
                       (\A i \in DOMAIN mutated' : mutated'[i] # n)
                       => NodeIn(addressSpace', n) = NodeIn(addressSpace, n)
            /\ Len(calls') = Len(notified)
            /\ \A i \in DOMAIN calls' :
                  calls'[i] = [callback |-> subscriptions[notified[i]],
                               key |-> notified[i],
                               value |-> NodeIn(addressSpace', notified[i]).value,
                               timestamp |-> NodeIn(addressSpace', notified[i]).timestamp] ]_vars

\* C5's case: a tick while Temperature and Pressure are subscribed with
\* different callbacks.
C5_Witness ==
    /\ op.name = "tick"
    /\ Len(calls) = 2
    /\ calls[1].key = TEMPERATURE /\ calls[2].key = PRESSURE
    /\ calls[1].callback # calls[2].callback

\* C6. After subscribe(N, cb1) and then subscribe(N, cb2) the registry
\* holds cb2 for N, every later invocation for N is of the callback the
\* registry holds, and a replaced callback is never invoked.
C6_ResubscribeReplaces ==
    /\ (op.name = "subscribe" /\ result.success)
         => (op.nodeId \in DOMAIN subscriptions
             /\ subscriptions[op.nodeId] = op.callback)
    /\ \A i \in DOMAIN calls :
          /\ calls[i].key \in DOMAIN subscriptions
          /\ calls[i].callback = subscriptions[calls[i].key]
          /\ <<calls[i].key, calls[i].callback>> \notin superseded

\* C6's case: Temperature is mutated after cb2 replaced cb1 on it.
C6_Witness ==
    /\ calls # << >>
    /\ calls[1].key = TEMPERATURE
    /\ calls[1].callback = "cb2"
    /\ <<TEMPERATURE, "cb1">> \in superseded

\* C7. unsubscribe(id) fails and leaves the registry as it is when id has
\* no entry in the registry; it succeeds only when id has one, and then
\* removes exactly that entry.
C7_UnsubscribeContract ==
    [][ op'.name = "unsubscribe"
        => IF op'.nodeId \in DOMAIN subscriptions
           THEN /\ result'.success
                /\ subscriptions' = WithoutEntry(subscriptions, op'.nodeId)
           ELSE /\ ~result'.success
                /\ subscriptions' = subscriptions ]_vars

\* C8. subscribe(id, cb) fails and leaves the registry as it is when id is
\* not a Variable node of the tree (absent, or an Object); for every
\* Variable node, ReadOnly or ReadWrite, it succeeds and binds id to cb,
\* the other entries staying.
C8_SubscribeContract ==
    [][ op'.name = "subscribe"
        => IF op'.nodeId \in VariableIdsOf(addressSpace)
           THEN /\ result'.success
                /\ subscriptions' = WithEntry(subscriptions, op'.nodeId, op'.callback)
           ELSE /\ ~result'.success
                /\ subscriptions' = subscriptions ]_vars

\* C8's case: a subscribe on the root Object fails while the ReadOnly
\* Status node holds a subscription.
C8_Witness ==
    /\ op.name = "subscribe" /\ op.nodeId = ROOT
    /\ ~result.success
    /\ STATUS \in DOMAIN subscriptions

\* C9 as claimed: after every tick Temperature is in [20, 30) and Pressure
\* in [98, 103); the upper bounds are never stored.
C9_HalfOpenRanges ==
    op.name = "tick"
    => /\ InHalfOpenRange(ToNumber(NodeIn(addressSpace, TEMPERATURE).value), 20, 30)
       /\ InHalfOpenRange(ToNumber(NodeIn(addressSpace, PRESSURE).value), 98, 103)

\* C9, amended. After every tick the stored value of Temperature is a
\* number of at most two decimals in the closed range [20, 30] and that of
\* Pressure one in [98, 103]: rounding to two decimals can store the upper
\* bound.
C9_ClosedRanges ==
    op.name = "tick"
    => /\ InClosedRange(ToNumber(NodeIn(addressSpace, TEMPERATURE).value), 20, 30)
       /\ InClosedRange(ToNumber(NodeIn(addressSpace, PRESSURE).value), 98, 103)
       /\ ToNumber(NodeIn(addressSpace, TEMPERATURE).value).den \in {1, 10, 100}
       /\ ToNumber(NodeIn(addressSpace, PRESSURE).value).den \in {1, 10, 100}

\* C9's case: a tick whose Temperature sample rounds up to 30.00.
C9_Witness ==
    /\ op.name = "tick"
    /\ NodeIn(addressSpace, TEMPERATURE).value = Str(<<"3", "0", ".", "0", "0">>)

\* C10. Every tick assigns Temperature and Pressure, each with the
\* timestamp of the instant of its assignment, and that timestamp is
\* strictly later than the one the previous tick gave the node, whatever
\* was written to the node in between.
C10_TickTimestampsAdvance ==
    [][ op'.name = "tick"
        => /\ mutated' = <<TEMPERATURE, PRESSURE>>
           /\ NodeIn(addressSpace', TEMPERATURE).timestamp = toISOString(now)
           /\ NodeIn(addressSpace', PRESSURE).timestamp = toISOString(now')
           /\ lastTick' = <<toISOString(now), toISOString(now')>>
           /\ lastTick # << >>
                => /\ IsoBefore(lastTick[1], lastTick'[1])
                   /\ IsoBefore(lastTick[2], lastTick'[2]) ]_vars

\* C10's case: a second tick, one period after the first.
C10_Witness ==
    /\ op.name = "tick"
    /\ lastTick = <<toISOString(2 * Period), toISOString(2 * Period)>>

\* C11. stopDataSimulation never fails and is final: whether or not a timer
\* is stored, after it no timer is stored or active, and it returns
\* nothing and changes no node; called again it changes nothing. A tick
\* only runs for the timer that is stored, so that while none is stored no
\* tick runs and only a write changes a node, until startDataSimulation
\* stores a timer again.
C11_StopIdempotentFinal ==
    [][ /\ op'.name = "stopDataSimulation"
             => /\ updateInterval' = 0
                /\ timers' = << >>
                /\ result' = null
                /\ addressSpace' = addressSpace
                /\ subscriptions' = subscriptions
                /\ updateInterval = 0 => timers' = timers
        /\ op'.name = "tick" => (updateInterval # 0 /\ op'.timer = updateInterval)
        /\ (updateInterval = 0 /\ addressSpace' # addressSpace) => op'.name = "writeNode"
        /\ (updateInterval = 0 /\ updateInterval' # 0)
             => op'.name = "startDataSimulation" ]_vars

\* C11's case: the one timer ever set was stopped before its first tick,
\* and two periods have passed since.
C11_Witness ==
    /\ updateInterval = 0
    /\ timerSeq = 1
    /\ lastTick = << >>
    /\ now = 2 * Period
    /\ op.name = "advance"

\* C12. At most one interval timer is active, the one whose id is stored:
\* startDataSimulation while one is stored sets no other. After a tick the
\* timer is due one period later, so that no second tick runs in that
\* period; after a stop no timer is active.
C12_AtMostOneTimer ==
    /\ DOMAIN timers = (IF updateInterval = 0 THEN {} ELSE {updateInterval})
    /\ Cardinality(DOMAIN timers) <= 1
    /\ op.name = "tick" => \A id \in DOMAIN timers : timers[id] = now + Period
    /\ op.name = "stopDataSimulation" => timers = << >>

\* C12's case: startDataSimulation is called at the instant the timer set
\* one period earlier is due.
C12_Witness ==
    /\ op.name = "startDataSimulation"
    /\ now = Period
    /\ updateInterval = 1
    /\ timers = <<Period>>

\* C13. In every state browseNodes of the root gives the one entry
\* MyDevices, with hasChildren true; browseNodes of MyDevices gives four
\* entries, Temperature, Pressure, Status, DeviceName in this order, each
\* with hasChildren false and with the value and timestamp the node holds
\* now; browseNodes of a Variable gives the empty list.
C13_BrowseShape ==
    /\ browseNodes(addressSpace, ROOT)
         = << [nodeId |-> FOLDER, browseName |-> "MyDevices", nodeClass |-> "Object",
               hasChildren |-> TRUE] >>
    /\ LET entries == browseNodes(addressSpace, FOLDER)
       IN  /\ [i \in DOMAIN entries |-> entries[i].nodeId]
                = <<TEMPERATURE, PRESSURE, STATUS, DEVICENAME>>
           /\ [i \in DOMAIN entries |-> entries[i].browseName]
                = <<"Temperature", "Pressure", "Status", "DeviceName">>
           /\ \A i \in DOMAIN entries :
                 /\ ~entries[i].hasChildren
                 /\ entries[i].value = NodeIn(addressSpace, entries[i].nodeId).value
                 /\ entries[i].timestamp = NodeIn(addressSpace, entries[i].nodeId).timestamp
    /\ \A id \in VariableIds : browseNodes(addressSpace, id) = << >>

\* C13's case: a tick has given Pressure the timestamp of its instant, one
\* period after construction, and browseNodes shows it.
C13_Witness ==
    /\ op.name = "tick"
    /\ browseNodes(addressSpace, FOLDER)[2].timestamp = toISOString(Period)
    /\ browseNodes(addressSpace, FOLDER)[3].timestamp = toISOString(0)

\* C14. Status holds true and DeviceName holds "SensorUnit-A", each with
\* the timestamp of construction, in every state: after ticks, and after
\* writes to them, which fail as ReadOnly.
C14_ReadOnlyNodesConstant ==
    /\ NodeIn(addressSpace, STATUS) = NodeIn(InitialAddressSpace(0, 0, 0, 0), STATUS)
    /\ NodeIn(addressSpace, DEVICENAME) = NodeIn(InitialAddressSpace(0, 0, 0, 0), DEVICENAME)
    /\ NodeIn(addressSpace, STATUS).value = Bool(TRUE)
    /\ NodeIn(addressSpace, DEVICENAME).value
         = Str(<<"S", "e", "n", "s", "o", "r", "U", "n", "i", "t", "-", "A">>)
    /\ (op.name = "handleWrite" /\ op.nodeId \in {STATUS, DEVICENAME}
        /\ op.newValue # << >>)
         => (~result.success
             /\ result.message.template = "Node '{browseName}' is ReadOnly.")

\* C14's case: a write to Status was attempted after a tick.
C14_Witness ==
    /\ op.name = "handleWrite"
    /\ op.nodeId = STATUS
    /\ op.newValue # << >>
    /\ lastTick # << >>

\* C15 as claimed: the timestamp of a Variable node differs after a step
\* from before it if and only if the step assigned the node's value.
C15_TimestampChangesIff ==
    [][ \A n \in VariableIds :
           (NodeIn(addressSpace', n).timestamp # NodeIn(addressSpace, n).timestamp)
           <=> (\E i \in DOMAIN mutated' : mutated'[i] = n) ]_vars

\* C15, amended. A step that assigns a Variable node's value (a successful
\* write, a tick) also assigns its timestamp the instant of the assignment,
\* in milliseconds: the timestamp is then later than before, or the same
\* when the node was last assigned in that same millisecond, and this
\* whether or not the value differs. A step that does not assign the node
\* (a failed write, subscribe, unsubscribe, start, stop, a mutation of
\* another node) leaves its value and timestamp as they were.
C15_TimestampRefreshed ==
    [][ /\ \A n \in VariableIds :
              IF \E i \in DOMAIN mutated' : mutated'[i] = n
              THEN /\ NodeIn(addressSpace', n).timestamp
                        \in {toISOString(now), toISOString(now')}
                   /\ \/ IsoBefore(NodeIn(addressSpace, n).timestamp,
                                   NodeIn(addressSpace', n).timestamp)
                      \/ NodeIn(addressSpace, n).timestamp = toISOString(now)
              ELSE NodeIn(addressSpace', n) = NodeIn(addressSpace, n)
        /\ mutated' # << >>
             => \/ op'.name = "tick"
                \/ (op'.name = "writeNode" /\ result'.success
                    /\ mutated' = <<op'.nodeId>>)
        /\ (op'.name = "writeNode" /\ result'.success) => mutated' = <<op'.nodeId>>
        /\ op'.name = "tick" => mutated' = <<TEMPERATURE, PRESSURE>> ]_vars

\* C15's case: a write to Temperature succeeds one period after
\* construction, with no tick before it.
C15_Witness ==
    /\ op.name = "writeNode"
    /\ result.success
    /\ now = Period
    /\ lastTick = << >>
    /\ NodeIn(addressSpace, TEMPERATURE).timestamp = toISOString(Period)
    /\ NodeIn(addressSpace, PRESSURE).timestamp = toISOString(0)

\* C16. The value each Variable node stores has the type its dataType
\* names: a number for Float, a boolean for Boolean, text for String; and
\* so has every value a callback is invoked with.
C16_ValuesTyped ==
    LET TypeName(dataType) ==
           CASE dataType = "Float" -> "number"
             [] dataType = "Boolean" -> "boolean"
             [] dataType = "String" -> "string"
    IN  /\ \A n \in VariableIds :
              NodeIn(addressSpace, n).value.kind = TypeName(NodeIn(addressSpace, n).dataType)
        /\ \A i \in DOMAIN calls :
              calls[i].value.kind = TypeName(NodeIn(addressSpace, calls[i].key).dataType)

\* C18. readNode(id) returns the value, dataType, accessLevel and timestamp
\* the node holds when id is a Variable of the tree, and null for any other
\* id (absent, or an Object); it changes no node, no subscription and no
\* timer, and invokes no callback.
C18_ReadIsPure ==
    [][ op'.name = "readNode"
        => /\ \A n \in VariableAt(addressSpace, op'.nodeId) :
                 result' = [value |-> n.value, dataType |-> n.dataType,
                            accessLevel |-> n.accessLevel, timestamp |-> n.timestamp]
           /\ VariableAt(addressSpace, op'.nodeId) = {} => result' = null
           /\ addressSpace' = addressSpace
           /\ subscriptions' = subscriptions
           /\ updateInterval' = updateInterval
           /\ timers' = timers
           /\ calls' = << >>
           /\ mutated' = << >> ]_vars

\* C18's case: Temperature is read after a write changed it, while it has
\* a subscriber.
C18_Witness ==
    /\ op.name = "readNode"
    /\ op.nodeId = TEMPERATURE
    /\ result.value = [kind |-> "number", num |-> 2675, den |-> 100]
    /\ result.timestamp = toISOString(1)
    /\ TEMPERATURE \in DOMAIN subscriptions

\* C17. A disconnect of the connected client stops the clock and removes
\* the client's subscription: right after it no timer is stored or active,
\* the registry is empty and the client holds no subscription. From then on
\* the clock stays stopped and the registry empty for as long as the client
\* is not connected.
C17_DisconnectTearsDown ==
    [][ /\ (op'.name = "handleDisconnect" /\ isConnected)
             => /\ ~isConnected'
                /\ updateInterval' = 0
                /\ timers' = << >>
                /\ subscriptions' = << >>
                /\ subscribedNodeId' = << >>
        /\ (page.loaded /\ ~isConnected /\ ~isConnected'
            /\ updateInterval = 0 /\ subscriptions = << >>)
             => /\ updateInterval' = 0
                /\ timers' = << >>
                /\ subscriptions' = << >> ]_vars

\* C17's case: the client disconnects while subscribed to Temperature,
\* after a tick.
C17_Witness ==
    /\ op.name = "handleDisconnect"
    /\ op.subscribedNodeId = <<TEMPERATURE>>
    /\ ~isConnected
    /\ lastTick # << >>

\* C19. Once the page is initialised, the simulation timer is stored if
\* and only if the client is connected.
C19_RunningIffConnected ==
    page.loaded => ((updateInterval # 0) <=> isConnected)

\* C20. The registry and the client's subscribedNodeId agree in every
\* state: the registry has at most one entry; its keys are exactly the
\* subscribedNodeId when that is set, and none when it is null; every key
\* is the id of a Variable node.
C20_RegistryAgreesWithClient ==
    /\ Cardinality(DOMAIN subscriptions) <= 1
    /\ DOMAIN subscriptions = { subscribedNodeId[i] : i \in DOMAIN subscribedNodeId }
    /\ DOMAIN subscriptions \subseteq VariableIdsOf(addressSpace)
    /\ \A k \in DOMAIN subscriptions : subscriptions[k] = LogCallback

\* C20's case: the client, subscribed to Temperature, clicks subscribe with
\* Pressure in the field.
C20_Witness ==
    /\ op.name = "handleSubscribe"
    /\ op.subscribedNodeId = <<TEMPERATURE>>
    /\ op.nodeId = PRESSURE
    /\ subscribedNodeId = <<PRESSURE>>

\* C21. Whenever a callback is invoked for a node with (v, t), by a write
\* or by a tick, the node already holds v and t: a readNode of that node
\* made inside the callback returns value v and timestamp t. Callbacks are
\* invoked by writes and ticks only, within the step that assigns the node.
C21_MutationPrecedesNotification ==
    /\ Len(reads) = Len(calls)
    /\ \A i \in DOMAIN calls :
          /\ reads[i] # null
          /\ reads[i].value = calls[i].value
          /\ reads[i].timestamp = calls[i].timestamp
          /\ \E j \in DOMAIN mutated : mutated[j] = calls[i].key
    /\ calls # << >> => op.name \in {"writeNode", "tick"}

\* C21's case: a tick at which only Pressure is subscribed stores "98.00"
\* and calls the subscriber.
C21_Witness ==
    /\ op.name = "tick"
    /\ Len(calls) = 1
    /\ calls[1].key = PRESSURE
    /\ reads[1].value = Str(<<"9", "8", ".", "0", "0">>)

\* C22. While the client stays connected and subscribed to Temperature or
\* to Pressure, a tick eventually invokes its callback for that node,
\* without any write: from every state where it is so subscribed (and the
\* stored timer falls due before the clock of the model stops), a state
\* follows where a tick has invoked the callback, or the client has
\* disconnected or given up that subscription. No callback is ever invoked
\* for Status or DeviceName.
C22_SubscriberEventuallyNotified ==
    /\ \A n \in {TEMPERATURE, PRESSURE} :
          (/\ isConnected
           /\ subscribedNodeId = <<n>>
           /\ updateInterval # 0
           /\ timers[updateInterval] <= MaxTime)
          ~> (\/ /\ op.name = "tick"
                 /\ \E i \in DOMAIN calls :
                       calls[i].key = n /\ calls[i].callback = LogCallback
              \/ ~isConnected
              \/ subscribedNodeId # <<n>>)
    /\ [](\A i \in DOMAIN calls : calls[i].key \notin {STATUS, DEVICENAME})

\* C22's case: the second tick after the page was loaded invokes the
\* callback of the client, connected and subscribed to Temperature.
C22_Witness ==
    /\ op.name = "tick"
    /\ now = 2 * Period
    /\ isConnected
    /\ subscribedNodeId = <<TEMPERATURE>>
    /\ Len(calls) = 1
    /\ calls[1].key = TEMPERATURE
    /\ calls[1].callback = LogCallback

====
